---- MODULE Spec2Model ----
(***************************************************************************)
(* Conway's Game of Life on a fixed-size toroidal grid (crate             *)
(* game-of-life): the Universe of src/universe.rs, the rule `hades` of     *)
(* src/utils.rs, the Cell of src/cells.rs and the neighbour count of the   *)
(* Universe of src/lib.rs.                                                 *)
(*                                                                         *)
(* Spec is the Universe of 1 x 1 to MaxWidth x MaxHeight cells under every *)
(* call; SpecAnySize is the Universe of the extreme widths and heights of  *)
(* u32, zero included, where products and sums overflow.                   *)
(*                                                                         *)
(* The state is the Universe (width, height, cells and the address of the  *)
(* Vec buffer that holds the cells), the position of the running method    *)
(* (pc) with its locals, and the value the last call returned to the       *)
(* caller (ret), which the caller may keep over later calls.               *)
(***************************************************************************)
EXTENDS Integers, Sequences, FiniteSets

\* ---------------------------------------------------------------- bounds
\* Largest width and height a Universe is constructed with.
MaxWidth == 3
MaxHeight == 3
\* Longest batch handed to init_cells.
MaxBatch == 2
\* How many later calls the caller keeps a returned value over.
MaxHold == 1
\* The bits of the machine word the model gives u32: the arithmetic of u32
\* is the arithmetic modulo 2^WordBits, wide enough for the 10 x 10 grid
\* of the tests.
WordBits == 7

\* ------------------------------------------------------ program constants
\* The glyphs of Cell's Display and the row separator, as code points.
GlyphAlive == 9724
GlyphDead == 9723
Newline == 10

VARIABLES
    width,              \* Universe.width
    height,             \* Universe.height
    cells,              \* Universe.cells, row-major, 1-based here
    cells_ptr,          \* address of the buffer of Universe.cells
    pc,                 \* "idle" | "init_cells" | "returned" | "next_epoch"
                        \* | "panicked"
    initial_cells,      \* argument of the running init_cells; after a
                        \* panic, the pairs the loop had applied before it
    cells_clone,        \* next_epoch: the local `cells`
    next_cells,         \* next_epoch: the local `next_cells`
    clone_ptr,          \* next_epoch: address of the buffer of `cells`
    next_ptr,           \* next_epoch: address of the buffer of `next_cells`
    index,              \* next_epoch: how many cells the loop has done
    cell,               \* next_epoch: loop local `cell`
    living_neightbour,  \* next_epoch: loop local `living_neightbour`
    next_epoch_state,   \* next_epoch: loop local `next_epoch_state`
    ret,                \* the value the last call returned
    ret_age             \* calls made since, with the caller keeping it

vars == <<width, height, cells, cells_ptr, pc, initial_cells, cells_clone,
          next_cells, clone_ptr, next_ptr, index, cell, living_neightbour,
          next_epoch_state, ret, ret_age>>

universe == <<width, height, cells, cells_ptr>>
locals == <<cells_clone, next_cells, clone_ptr, next_ptr, index, cell,
            living_neightbour, next_epoch_state>>

\* ------------------------------------------------------------------ Cell
Cell == {"Dead", "Alive"}

\* `cell as u8` under #[repr(u8)]: Dead = 0, Alive = 1.
CellAsU8(c) == IF c = "Alive" THEN 1 ELSE 0

\* Display for Cell.
CellToString(c) == IF c = "Alive" THEN GlyphAlive ELSE GlyphDead

\* ------------------------------------------------------------- addresses
\* The address of no buffer: a local not yet allocated, a returned value
\* that owns no heap storage.
NoPtr == -1

\* The address of the buffer of a Vec or String that holds nothing: no
\* allocation is made for it.
Dangling == -2

\* The allocator hands out the lowest address no live buffer occupies.
Alloc(live) ==
    CHOOSE a \in 0..Cardinality(live) :
        /\ a \notin live
        /\ \A b \in 0..(a - 1) : b \in live

\* ------------------------------------------------------------ u32
\* The number of values of u32.
Word == 2 ^ WordBits

\* The u32 a sum or product x >= 0 is in a build without overflow checks
\* (the release profile): x modulo Word. A build with the checks (the dev
\* profile) panics where x >= Word.
U32(x) == x % Word

\* The address of the buffer of a new Vec or String of the elements s.
AllocFor(s, live) == IF s = <<>> THEN Dangling ELSE Alloc(live)

\* ------------------------------------------------------- index mapping
\* Universe::to_index; the result is 0-based. usize is at least as wide as
\* u32, the cast changes nothing.
to_index(w, row, col) == U32(U32(w * row) + col)

\* `self.width * row + col` overflows u32.
to_index_overflows(w, row, col) == w * row + col >= Word

\* Mutant of from_index: the quotient and the remainder swapped.
from_index_swapped(w, i) == <<i % w, i \div w>>

\* Universe::from_index.
from_index(w, i) == <<i \div w, i % w>>

\* ------------------------------------------------------------- the rule
\* Mutant of hades: the first arm's guard written x <= 2.
hades_dies_at_two(is_alive, living_neightbours) ==
    CASE is_alive = "Alive" /\ living_neightbours <= 2 -> "Dead"
      [] is_alive = "Alive" /\ living_neightbours = 3 -> "Alive"
      [] is_alive = "Alive" /\ living_neightbours > 3 -> "Dead"
      [] is_alive = "Dead" /\ living_neightbours = 3 -> "Alive"
      [] OTHER -> is_alive

hades(is_alive, living_neightbours) ==
    CASE is_alive = "Alive" /\ living_neightbours < 2 -> "Dead"
      [] is_alive = "Alive" /\ living_neightbours \in {2, 3} -> "Alive"
      [] is_alive = "Alive" /\ living_neightbours > 3 -> "Dead"
      [] is_alive = "Dead" /\ living_neightbours = 3 -> "Alive"
      [] OTHER -> is_alive

\* ------------------------------------------------------ neighbour count
\* The three deltas of one axis of length n >= 1: [n - 1, n, n + 1].
Deltas(n) == <<n - 1, n, U32(n + 1)>>

\* The row (column) the i-th delta leads to from position p on an axis of
\* length n: `(row + row_delta) as u32 % self.height`.
Wrapped(p, n, i) == U32(p + Deltas(n)[i]) % n

\* Mutant of living_neightbour_count: the skip written `r == 0 && c == 0`.
living_neightbour_count_skips_origin(cs, w, h, row, col) ==
    Cardinality({d \in (1..3) \X (1..3) :
        LET r == Wrapped(row, h, d[1])
            c == Wrapped(col, w, d[2])
        IN  /\ ~(r = 0 /\ c = 0)
            /\ CellAsU8(cs[to_index(w, r, c) + 1]) = 1})

\* Mutant of living_neightbour_count: the grid has edges, the neighbours
\* beyond them are not counted.
living_neightbour_count_no_wrap(cs, w, h, row, col) ==
    Cardinality({d \in ({-1, 0, 1} \X {-1, 0, 1}) \ {<<0, 0>>} :
        /\ row + d[1] \in 0..(h - 1)
        /\ col + d[2] \in 0..(w - 1)
        /\ CellAsU8(cs[to_index(w, row + d[1], col + d[2]) + 1]) = 1})

\* Universe::living_neightbour_count on the cell sequence cs of a w x h
\* grid: one addend per pair of deltas, the pairs that lead back to
\* (row, col) skipped.
living_neightbour_count(cs, w, h, row, col) ==
    Cardinality({d \in (1..3) \X (1..3) :
        LET r == Wrapped(row, h, d[1])
            c == Wrapped(col, w, d[2])
        IN  /\ ~(r = row /\ c = col)
            /\ CellAsU8(cs[to_index(w, r, c) + 1]) = 1})

\* 2^32 modulo n, from 2^32 = 65536 * 65536.
TwoTo32Mod(n) == ((65536 % n) * (65536 % n)) % n

\* src/lib.rs, `(row as i32 + row_delta) as u32 % self.height`: the sum is
\* taken in i32, the cast to u32 adds 2^32 to a negative sum, and the
\* remainder by n is taken of that.
LibWrapped(p, n, delta) ==
    IF p + delta >= 0 THEN (p + delta) % n
    ELSE (TwoTo32Mod(n) + ((p + delta) % n)) % n

\* Universe::living_neightbour_count of src/lib.rs: the deltas [-1, 0, 1],
\* the skip `r == 0 && c == 0`, get_index(r, c) = width * r + c.
lib_living_neightbour_count(cs, w, h, row, col) ==
    Cardinality({d \in {-1, 0, 1} \X {-1, 0, 1} :
        LET r == LibWrapped(row, h, d[1])
            c == LibWrapped(col, w, d[2])
        IN  /\ ~(r = 0 /\ c = 0)
            /\ CellAsU8(cs[(w * r + c) + 1]) = 1})

\* One of the u32 sums and products of living_neightbour_count(row, col)
\* overflows: a delta, a position plus a delta, or the index of a cell it
\* reads.
CountOverflows(w, h, row, col) ==
    \/ h + 1 >= Word
    \/ w + 1 >= Word
    \/ \E i \in 1..3 : row + Deltas(h)[i] >= Word
    \/ \E i \in 1..3 : col + Deltas(w)[i] >= Word
    \/ \E d \in (1..3) \X (1..3) :
          LET r == Wrapped(row, h, d[1])
              c == Wrapped(col, w, d[2])
          IN  ~(r = row /\ c = col) /\ to_index_overflows(w, r, c)

\* living_neightbour_count(row, col) reads self.cells out of bounds.
CountOutOfBounds(cs, w, h, row, col) ==
    \E d \in (1..3) \X (1..3) :
        LET r == Wrapped(row, h, d[1])
            c == Wrapped(col, w, d[2])
        IN  ~(r = row /\ c = col) /\ to_index(w, r, c) >= Len(cs)

\* living_neightbour_count(row, col) panics in a build with
\* (overflow_checks) or without overflow checks.
CountPanics(cs, w, h, row, col, overflow_checks) ==
    \/ overflow_checks /\ CountOverflows(w, h, row, col)
    \/ CountOutOfBounds(cs, w, h, row, col)

\* ---------------------------------------------------------------- seeding
\* The loop of Universe::init_cells over the batch, on the local clone:
\* the clone after the loop, or a panic when an index is out of bounds.
RECURSIVE InitCellsLoop(_, _, _)
InitCellsLoop(local, batch, w) ==
    IF batch = <<>> THEN [panic |-> FALSE, cells |-> local]
    ELSE LET idx == to_index(w, batch[1][1], batch[1][2])
         IN  IF idx >= Len(local) THEN [panic |-> TRUE, cells |-> local]
             ELSE InitCellsLoop([local EXCEPT ![idx + 1] = "Alive"],
                                Tail(batch), w)

\* The pairs the loop of init_cells goes through before the first pair
\* at which it panics, because the index is out of bounds of a buffer of
\* len cells or, in a build with overflow checks, because to_index
\* overflows: the whole batch when there is none.
Applied(batch, w, len, overflow_checks) ==
    LET bad == {k \in 1..Len(batch) :
                    \/ to_index(w, batch[k][1], batch[k][2]) >= len
                    \/ /\ overflow_checks
                       /\ to_index_overflows(w, batch[k][1], batch[k][2])}
    IN  IF bad = {} THEN batch
        ELSE SubSeq(batch, 1,
                    (CHOOSE k \in bad : \A j \in bad : k <= j) - 1)

\* ------------------------------------------------------------- rendering
\* Display for Universe from chunk idx on: every chunk of `w` cells,
\* followed by a newline when idx < chunk.len() - 1.
RECURSIVE FmtFrom(_, _, _)
FmtFrom(cs, w, idx) ==
    IF idx * w >= Len(cs) THEN <<>>
    ELSE LET last == IF (idx + 1) * w < Len(cs) THEN (idx + 1) * w ELSE Len(cs)
             chunk == SubSeq(cs, idx * w + 1, last)
             glyphs == [k \in 1..Len(chunk) |-> CellToString(chunk[k])]
         IN  glyphs
             \o (IF idx < Len(chunk) - 1 THEN <<Newline>> ELSE <<>>)
             \o FmtFrom(cs, w, idx + 1)

Fmt(cs, w) == FmtFrom(cs, w, 0)

\* ------------------------------------------------------ returned values
NoRet == [kind |-> "none", arg |-> <<>>, val |-> <<>>, ptr |-> NoPtr]

\* The buffers alive between calls: the Universe's and, if the caller
\* holds a heap value, that value's.
LiveBuffers == {cells_ptr} \cup (IF ret.ptr = NoPtr THEN {} ELSE {ret.ptr})

\* The values a caller keeps over later calls: the snapshot of
\* cells_to_arr and the cell view of cells().
Held == {"cells_to_arr", "cells"}

\* A call that returns nothing is made by a caller that holds no returned
\* value, or one in Held it has kept over fewer than MaxHold calls.
CanCall ==
    /\ pc = "idle"
    /\ \/ ret.kind = "none"
       \/ ret.kind \in Held /\ ret_age < MaxHold

KeepRet ==
    /\ ret' = ret
    /\ ret_age' = IF ret.kind = "none" THEN 0 ELSE ret_age + 1

\* A call that returns r, made by a caller that holds no returned value.
CanRead ==
    /\ pc = "idle"
    /\ ret.kind = "none"

Return(r) ==
    /\ ret' = r
    /\ ret_age' = 0

\* ------------------------------------------------------------ the inputs
Pairs(w, h) == (0..h) \X (0..w)

Batches(w, h) == UNION {[1..n -> Pairs(w, h)] : n \in 0..MaxBatch}

NoLocals ==
    /\ cells_clone = <<>>
    /\ next_cells = <<>>
    /\ clone_ptr = NoPtr
    /\ next_ptr = NoPtr
    /\ index = 0
    /\ cell = "Dead"
    /\ living_neightbour = 0
    /\ next_epoch_state = "Dead"

\* ------------------------------------------------------------------ new
\* Mutant of new: the storage sized width * width.
InitSquare ==
    /\ width \in 1..MaxWidth
    /\ height \in 1..MaxHeight
    /\ cells = [i \in 1..(width * width) |-> "Dead"]
    /\ cells_ptr = Alloc({})
    /\ pc = "idle"
    /\ initial_cells = <<>>
    /\ NoLocals
    /\ ret = NoRet
    /\ ret_age = 0

\* Universe::new(width, height), the two drawn from ws and hs:
\* (width * height) as usize cells, all Dead. The product is taken in u32:
\* where it overflows, a build with overflow checks panics and a build
\* without them makes the cells of the wrapped product.
New(ws, hs) ==
    /\ width \in ws
    /\ height \in hs
    /\ \E overflow_checks \in BOOLEAN :
          IF overflow_checks /\ width * height >= Word
          THEN /\ pc = "panicked"
               /\ cells = <<>>
               /\ cells_ptr = NoPtr
          ELSE /\ pc = "idle"
               /\ cells = [i \in 1..U32(width * height) |-> "Dead"]
               /\ cells_ptr = AllocFor(cells, {})
    /\ initial_cells = <<>>
    /\ NoLocals
    /\ ret = NoRet
    /\ ret_age = 0

\* The Universes of 1 x 1 to MaxWidth x MaxHeight cells.
Init == New(1..MaxWidth, 1..MaxHeight)

\* The widths and heights at the ends of u32: none, the smallest, half the
\* word, the largest.
Sizes == (0..2) \cup {Word \div 2, Word - 1}

\* The Universes of a width and a height of Sizes, one of the two at
\* most 2.
InitAnySize == New(Sizes, 0..2) \/ New(0..2, Sizes)

\* ----------------------------------------------------------- init_cells
\* The caller invokes init_cells(batch).
CallInitCells(batch) ==
    /\ pc = "idle"
    /\ ret.kind = "none"
    /\ pc' = "init_cells"
    /\ initial_cells' = batch
    /\ UNCHANGED <<universe, locals, ret, ret_age>>

\* Universe::init_single_cell(row, col): init_cells(vec![[row, col]]).
InitSingleCell(row, col) ==
    /\ CanCall
    /\ pc' = "init_cells"
    /\ initial_cells' = <<<<row, col>>>>
    /\ KeepRet
    /\ UNCHANGED <<universe, locals>>

\* Mutant of init_cells: the loop starts from a grid of Dead cells instead
\* of the clone of self.cells.
InitCellsFromDead ==
    /\ pc = "init_cells"
    /\ LET res == InitCellsLoop([i \in 1..Len(cells) |-> "Dead"],
                                initial_cells, width)
       IN  IF res.panic
           THEN /\ pc' = "panicked"
                /\ initial_cells' = Applied(initial_cells, width, Len(cells), FALSE)
                /\ UNCHANGED <<cells, cells_ptr>>
           ELSE /\ pc' = "returned"
                /\ cells' = res.cells
                /\ cells_ptr' = Alloc(LiveBuffers)
                /\ UNCHANGED initial_cells
    /\ UNCHANGED <<width, height, locals, ret, ret_age>>

\* Mutant of init_cells: the loop writes into self.cells, no clone made.
InitCellsInPlace ==
    /\ pc = "init_cells"
    /\ LET res == InitCellsLoop(cells, initial_cells, width)
       IN  IF res.panic
           THEN /\ pc' = "panicked"
                /\ initial_cells' = Applied(initial_cells, width, Len(cells), FALSE)
                /\ UNCHANGED <<cells, cells_ptr>>
           ELSE /\ pc' = "returned"
                /\ cells' = res.cells
                /\ UNCHANGED <<cells_ptr, initial_cells>>
    /\ UNCHANGED <<width, height, locals, ret, ret_age>>

\* Mutant of init_cells: the loop flips the cell a pair names instead of
\* setting it Alive.
InitCellsToggles ==
    /\ pc = "init_cells"
    /\ LET hits(i) == Cardinality({k \in 1..Len(initial_cells) :
                to_index(width, initial_cells[k][1], initial_cells[k][2]) + 1 = i})
           flip(c) == IF c = "Alive" THEN "Dead" ELSE "Alive"
       IN  IF Applied(initial_cells, width, Len(cells), FALSE) # initial_cells
           THEN /\ pc' = "panicked"
                /\ initial_cells' = Applied(initial_cells, width, Len(cells), FALSE)
                /\ UNCHANGED <<cells, cells_ptr>>
           ELSE /\ pc' = "returned"
                /\ cells' = [i \in 1..Len(cells) |->
                                IF hits(i) % 2 = 1 THEN flip(cells[i])
                                ELSE cells[i]]
                /\ cells_ptr' = Alloc(LiveBuffers)
                /\ UNCHANGED initial_cells
    /\ UNCHANGED <<width, height, locals, ret, ret_age>>

\* Mutant of init_cells: a panic in the loop leaves in self.cells what the
\* loop had written before it.
InitCellsPartial ==
    /\ pc = "init_cells"
    /\ LET res == InitCellsLoop(cells, initial_cells, width)
       IN  IF res.panic
           THEN /\ pc' = "panicked"
                /\ initial_cells' = Applied(initial_cells, width, Len(cells), FALSE)
                /\ cells' = res.cells
                /\ UNCHANGED cells_ptr
           ELSE /\ pc' = "returned"
                /\ cells' = res.cells
                /\ cells_ptr' = Alloc(LiveBuffers)
                /\ UNCHANGED initial_cells
    /\ UNCHANGED <<width, height, locals, ret, ret_age>>

\* Universe::init_cells: clone, loop, and replace self.cells by the clone;
\* a panic in the loop leaves self.cells as it was.
InitCells ==
    /\ pc = "init_cells"
    /\ \E overflow_checks \in BOOLEAN :
          LET res == InitCellsLoop(cells, initial_cells, width)
              done == Applied(initial_cells, width, Len(cells),
                              overflow_checks)
          IN  IF res.panic \/ done # initial_cells
              THEN /\ pc' = "panicked"
                   /\ initial_cells' = done
                   /\ UNCHANGED <<cells, cells_ptr>>
              ELSE /\ pc' = "returned"
                   /\ cells' = res.cells
                   /\ cells_ptr' = AllocFor(cells, LiveBuffers)
                   /\ UNCHANGED initial_cells
    /\ UNCHANGED <<width, height, locals, ret, ret_age>>

\* init_cells returns to the caller.
ReturnInitCells ==
    /\ pc = "returned"
    /\ pc' = "idle"
    /\ initial_cells' = <<>>
    /\ UNCHANGED <<universe, locals, ret, ret_age>>

\* ----------------------------------------------------------- next_epoch
\* Universe::next_epoch up to the loop: the two clones of self.cells.
NextEpoch ==
    /\ CanCall
    /\ pc' = "next_epoch"
    /\ cells_clone' = cells
    /\ next_cells' = cells
    /\ clone_ptr' = AllocFor(cells, LiveBuffers)
    /\ next_ptr' = AllocFor(cells, LiveBuffers \cup {clone_ptr'})
    /\ index' = 0
    /\ KeepRet
    /\ UNCHANGED <<universe, initial_cells, cell, living_neightbour,
                   next_epoch_state>>

\* Universe::tick: self.next_epoch().
Tick ==
    /\ NextEpoch

\* Mutant of the loop of next_epoch: the neighbours are counted in
\* next_cells, the buffer the loop writes.
NextEpochLoopCountsNext ==
    /\ pc = "next_epoch"
    /\ index < Len(cells_clone)
    /\ LET rc == from_index(width, index)
           n == living_neightbour_count(next_cells, width, height,
                                        rc[1], rc[2])
       IN  /\ cell' = cells_clone[index + 1]
           /\ living_neightbour' = n
           /\ next_epoch_state' = hades(cells_clone[index + 1], n)
           /\ next_cells' = [next_cells EXCEPT
                                ![index + 1] = hades(cells_clone[index + 1], n)]
    /\ index' = index + 1
    /\ UNCHANGED <<universe, pc, initial_cells, cells_clone, clone_ptr,
                   next_ptr, ret, ret_age>>

\* Mutant of the loop of next_epoch: each state is also written into
\* self.cells as it is computed.
NextEpochLoopWritesLive ==
    /\ pc = "next_epoch"
    /\ index < Len(cells_clone)
    /\ LET rc == from_index(width, index)
           n == living_neightbour_count(cells, width, height, rc[1], rc[2])
       IN  /\ cell' = cells_clone[index + 1]
           /\ living_neightbour' = n
           /\ next_epoch_state' = hades(cells_clone[index + 1], n)
           /\ next_cells' = [next_cells EXCEPT
                                ![index + 1] = hades(cells_clone[index + 1], n)]
           /\ cells' = [cells EXCEPT
                                ![index + 1] = hades(cells_clone[index + 1], n)]
    /\ index' = index + 1
    /\ UNCHANGED <<width, height, cells_ptr, pc, initial_cells, cells_clone,
                   clone_ptr, next_ptr, ret, ret_age>>

\* A panic unwinds next_epoch: its locals are dropped.
DropLocals ==
    /\ cells_clone' = <<>>
    /\ next_cells' = <<>>
    /\ clone_ptr' = NoPtr
    /\ next_ptr' = NoPtr
    /\ index' = 0
    /\ cell' = "Dead"
    /\ living_neightbour' = 0
    /\ next_epoch_state' = "Dead"

\* One iteration of the loop of next_epoch; living_neightbour_count may
\* panic.
NextEpochLoop ==
    /\ pc = "next_epoch"
    /\ index < Len(cells_clone)
    /\ \E overflow_checks \in BOOLEAN :
          LET rc == from_index(width, index)
              n == living_neightbour_count(cells, width, height, rc[1], rc[2])
          IN  IF CountPanics(cells, width, height, rc[1], rc[2],
                             overflow_checks)
              THEN /\ pc' = "panicked"
                   /\ DropLocals
              ELSE /\ cell' = cells_clone[index + 1]
                   /\ living_neightbour' = n
                   /\ next_epoch_state' = hades(cells_clone[index + 1], n)
                   /\ next_cells' = [next_cells EXCEPT
                          ![index + 1] = hades(cells_clone[index + 1], n)]
                   /\ index' = index + 1
                   /\ UNCHANGED <<pc, cells_clone, clone_ptr, next_ptr>>
    /\ UNCHANGED <<universe, initial_cells, ret, ret_age>>

\* The end of next_epoch: self.cells = next_cells.
NextEpochEnd ==
    /\ pc = "next_epoch"
    /\ index = Len(cells_clone)
    /\ cells' = next_cells
    /\ cells_ptr' = next_ptr
    /\ pc' = "idle"
    /\ cells_clone' = <<>>
    /\ next_cells' = <<>>
    /\ clone_ptr' = NoPtr
    /\ next_ptr' = NoPtr
    /\ index' = 0
    /\ cell' = "Dead"
    /\ living_neightbour' = 0
    /\ next_epoch_state' = "Dead"
    /\ UNCHANGED <<width, height, initial_cells, ret, ret_age>>

\* ------------------------------------------------------------ the reads
\* Mutant of cells_to_arr: the bytes of the Universe's own buffer are
\* handed out instead of a new Vec.
CellsToArrAliased ==
    /\ CanRead
    /\ Return([kind |-> "cells_to_arr", arg |-> <<>>,
               val |-> [i \in 1..Len(cells) |-> CellAsU8(cells[i])],
               ptr |-> cells_ptr])
    /\ UNCHANGED <<universe, pc, initial_cells, locals>>

\* Mutant of cells_to_arr: every cell is set Dead as its byte is taken.
CellsToArrClears ==
    /\ CanRead
    /\ Return([kind |-> "cells_to_arr", arg |-> <<>>,
               val |-> [i \in 1..Len(cells) |-> CellAsU8(cells[i])],
               ptr |-> Alloc({cells_ptr})])
    /\ cells' = [i \in 1..Len(cells) |-> "Dead"]
    /\ UNCHANGED <<width, height, cells_ptr, pc, initial_cells, locals>>

\* Universe::cells_to_arr: a new Vec<u8> of the cells as u8.
CellsToArr ==
    /\ CanRead
    /\ Return([kind |-> "cells_to_arr", arg |-> <<>>,
               val |-> [i \in 1..Len(cells) |-> CellAsU8(cells[i])],
               ptr |-> AllocFor(cells, {cells_ptr})])
    /\ UNCHANGED <<universe, pc, initial_cells, locals>>

\* Universe::render: to_string(). fmt panics at chunks(self.width) when
\* the width is 0.
Render ==
    /\ CanRead
    /\ IF width = 0
       THEN /\ pc' = "panicked"
            /\ UNCHANGED <<ret, ret_age>>
       ELSE /\ Return([kind |-> "render", arg |-> <<>>,
                       val |-> Fmt(cells, width),
                       ptr |-> AllocFor(Fmt(cells, width), {cells_ptr})])
            /\ UNCHANGED pc
    /\ UNCHANGED <<universe, initial_cells, locals>>

\* Universe::cells: self.cells.as_ptr().
Cells ==
    /\ CanRead
    /\ Return([kind |-> "cells", arg |-> <<>>, val |-> cells_ptr,
               ptr |-> NoPtr])
    /\ UNCHANGED <<universe, pc, initial_cells, locals>>

\* Universe::height.
Height ==
    /\ CanRead
    /\ Return([kind |-> "height", arg |-> <<>>, val |-> height,
               ptr |-> NoPtr])
    /\ UNCHANGED <<universe, pc, initial_cells, locals>>

\* Universe::width.
Width ==
    /\ CanRead
    /\ Return([kind |-> "width", arg |-> <<>>, val |-> width, ptr |-> NoPtr])
    /\ UNCHANGED <<universe, pc, initial_cells, locals>>

\* Universe::living_neightbour_count(row, col) called on its own.
LivingNeightbourCount(row, col) ==
    /\ CanRead
    /\ \E overflow_checks \in BOOLEAN :
          IF CountPanics(cells, width, height, row, col, overflow_checks)
          THEN /\ pc' = "panicked"
               /\ UNCHANGED <<ret, ret_age>>
          ELSE /\ Return([kind |-> "living_neightbour_count",
                          arg |-> <<row, col>>,
                          val |-> living_neightbour_count(cells, width, height,
                                                          row, col),
                          ptr |-> NoPtr])
               /\ UNCHANGED pc
    /\ UNCHANGED <<universe, initial_cells, locals>>

\* Universe::living_neightbour_count(row, col) of src/lib.rs, whose
\* Universe has the fields, the constructor and the init_cells of the
\* Universe of src/universe.rs.
LibLivingNeightbourCount(row, col) ==
    /\ CanRead
    /\ Return([kind |-> "lib_living_neightbour_count", arg |-> <<row, col>>,
               val |-> lib_living_neightbour_count(cells, width, height,
                                                   row, col),
               ptr |-> NoPtr])
    /\ UNCHANGED <<universe, pc, initial_cells, locals>>

\* ------------------------------------------------------------ the caller
\* The caller writes the byte v at position i of the Vec<u8> that
\* cells_to_arr returned. The write goes to the memory at ret.ptr: it would
\* show in the grid if that were the buffer of the Universe's cells.
WriteRet(i, v) ==
    /\ pc = "idle"
    /\ ret.kind = "cells_to_arr"
    /\ ret_age < MaxHold
    /\ ret' = [ret EXCEPT !.val[i] = v]
    /\ ret_age' = ret_age + 1
    /\ cells' = IF ret.ptr = cells_ptr
                THEN [cells EXCEPT ![i] = IF v = 1 THEN "Alive" ELSE "Dead"]
                ELSE cells
    /\ UNCHANGED <<width, height, cells_ptr, pc, initial_cells, locals>>

\* The caller drops the value it holds.
DropRet ==
    /\ pc = "idle"
    /\ ret.kind # "none"
    /\ ret' = NoRet
    /\ ret_age' = 0
    /\ UNCHANGED <<universe, pc, initial_cells, locals>>

\* ------------------------------------------------------ specification
Next ==
    \/ \E batch \in Batches(width, height) : CallInitCells(batch)
    \/ \E row \in 0..height, col \in 0..width : InitSingleCell(row, col)
    \/ InitCells
    \/ ReturnInitCells
    \/ NextEpoch
    \/ Tick
    \/ NextEpochLoop
    \/ NextEpochEnd
    \/ CellsToArr
    \/ Render
    \/ Cells
    \/ Height
    \/ Width
    \/ \E row \in 0..(height - 1), col \in 0..(width - 1) :
           LivingNeightbourCount(row, col)
    \/ \E row \in 0..(height - 1), col \in 0..(width - 1) :
           LibLivingNeightbourCount(row, col)
    \/ \E i \in 1..Len(cells), v \in 0..1 : WriteRet(i, v)
    \/ DropRet

Spec == Init /\ [][Next]_vars

\* No cell is Alive.
AllDead == \A i \in 1..Len(cells) : cells[i] = "Dead"

\* The calls made on a Universe of any size: a grid of Dead cells seeded
\* with the first cell or with a pair past the last row or column, a grid
\* of Dead cells advanced, the grid exported, its neighbours counted, and
\* a grid of no more cells than those of Spec rendered.
NextAnySize ==
    \/ \E row \in {0, height}, col \in {0, width} :
           AllDead /\ InitSingleCell(row, col)
    \/ InitCells
    \/ ReturnInitCells
    \/ AllDead /\ NextEpoch
    \/ NextEpochLoop
    \/ NextEpochEnd
    \/ CellsToArr
    \/ Len(cells) <= MaxWidth * MaxHeight /\ Render
    \/ \E row \in 0..(height - 1), col \in 0..(width - 1) :
           LivingNeightbourCount(row, col)
    \/ DropRet

SpecAnySize == InitAnySize /\ [][NextAnySize]_vars

\* ================================================================ claims
\* The cell sequence index (1-based) of (row, col) in a grid of width w.
At(w, row, col) == row * w + col + 1

\* The 8 offsets (dr, dc) around a cell.
Offsets == ({-1, 0, 1} \X {-1, 0, 1}) \ {<<0, 0>>}

\* The position offset d leads to from (row, col) on the w x h torus.
Target(w, h, row, col, d) == <<(row + d[1]) % h, (col + d[2]) % w>>

\* The number of offsets that lead from (row, col) to an Alive cell.
CountPerOffset(cs, w, h, row, col) ==
    Cardinality({d \in Offsets :
        LET t == Target(w, h, row, col, d)
        IN  cs[At(w, t[1], t[2])] = "Alive"})

\* The same, a cell never counted as its own neighbour: the offsets that
\* lead back to (row, col) itself, as they do on a grid one cell wide or
\* high, are left out.
CountOfOthers(cs, w, h, row, col) ==
    Cardinality({d \in Offsets :
        LET t == Target(w, h, row, col, d)
        IN  /\ t # <<row, col>>
            /\ cs[At(w, t[1], t[2])] = "Alive"})

\* The table of the rule.
RuleTable(state, count) ==
    IF state = "Alive"
    THEN (IF count < 2 THEN "Dead" ELSE IF count <= 3 THEN "Alive" ELSE "Dead")
    ELSE (IF count = 3 THEN "Alive" ELSE "Dead")

\* The generation after cs: the table applied to every cell and the number
\* of its live neighbours in cs.
Generation(cs, w, h) ==
    [i \in 1..Len(cs) |->
        RuleTable(cs[i], CountOfOthers(cs, w, h, (i - 1) \div w, (i - 1) % w))]

\* A grid of the given size with exactly the cells of `live` Alive.
Grid(w, h, live) ==
    [i \in 1..(w * h) |->
        IF <<(i - 1) \div w, (i - 1) % w>> \in live THEN "Alive" ELSE "Dead"]

\* The glider of test_next_epoch on the 10 x 10 grid, before and after.
GliderSide == 10
GliderBefore == {<<3, 4>>, <<4, 5>>, <<5, 3>>, <<5, 4>>, <<5, 5>>}
GliderAfter == {<<4, 3>>, <<4, 5>>, <<5, 4>>, <<5, 5>>, <<6, 4>>}

\* What the loop of next_epoch computes for the glider grid.
GliderStep ==
    LET g == Grid(GliderSide, GliderSide, GliderBefore)
    IN  [i \in 1..Len(g) |->
            LET rc == from_index(GliderSide, i - 1)
            IN  hades(g[i], living_neightbour_count(g, GliderSide, GliderSide,
                                                    rc[1], rc[2]))]
        = Grid(GliderSide, GliderSide, GliderAfter)

\* C1: when next_epoch replaces the grid, every cell's new state is the
\* rule applied to the cell's state and the number of its live neighbours
\* on the torus in the grid as it was before the call (the local clone
\* taken on entry); nothing written during the call enters it. The glider
\* of the 10 x 10 grid moves to {(4,3),(4,5),(5,4),(5,5),(6,4)}.
C1_NextFromOldState ==
    [][/\ GliderStep
       /\ (pc = "next_epoch" /\ pc' = "idle")
            => cells' = Generation(cells_clone, width, height)]_vars

\* C1 witness: next_epoch has run through a grid with live cells and is
\* about to replace it by a different grid with live cells.
C1_Witness ==
    /\ pc = "next_epoch"
    /\ index = Len(cells_clone)
    /\ next_cells # cells_clone
    /\ \E i \in 1..Len(next_cells) : next_cells[i] = "Alive"
    /\ next_cells = Generation(cells_clone, width, height)

\* C2 (as claimed): living_neightbour_count(row, col) is the number of the
\* 8 offsets other than (0,0) that lead to an Alive cell, a position
\* reached by several offsets counted once per offset, on every grid.
C2_CountPerOffset ==
    ret.kind = "living_neightbour_count"
        => ret.val = CountPerOffset(cells, width, height, ret.arg[1], ret.arg[2])

\* C2 (amended): living_neightbour_count(row, col) is the number of the 8
\* offsets that lead to an Alive cell other than (row, col) itself, once
\* per offset: every offset that leads back to (row, col) is skipped, which
\* is (0,0) alone when width and height are at least 2.
C2_CountOfOthers ==
    /\ ret.kind = "living_neightbour_count"
        => ret.val = CountOfOthers(cells, width, height, ret.arg[1], ret.arg[2])
    /\ (ret.kind = "living_neightbour_count" /\ width >= 2 /\ height >= 2)
        => ret.val = CountPerOffset(cells, width, height, ret.arg[1], ret.arg[2])

\* C2 witness: a count on a grid one cell high, where offsets lead back to
\* the live cell asked about and others lead to a live cell twice.
C2_Witness ==
    /\ ret.kind = "living_neightbour_count"
    /\ height = 1
    /\ width = 2
    /\ cells[At(width, ret.arg[1], ret.arg[2])] = "Alive"
    /\ ret.val = 6

\* C3: hades(state, count) is the table value for both states and every
\* count in 0..8, and so is every state the loop of next_epoch computes.
C3_HadesIsTable ==
    /\ \A state \in Cell, count \in 0..8 :
          hades(state, count) = RuleTable(state, count)
    /\ (pc = "next_epoch" /\ index > 0)
          => next_epoch_state = RuleTable(cell, living_neightbour)

\* C3 witness: the loop has applied the rule to a dead cell with three
\* live neighbours.
C3_Witness ==
    /\ pc = "next_epoch"
    /\ index > 0
    /\ cell = "Dead"
    /\ living_neightbour = 3
    /\ next_epoch_state = "Alive"

\* The pairs of a batch that lie in the grid.
InRange(pair) == pair[1] < height /\ pair[2] < width

\* The cells the in-range pairs of a batch name.
Seeded(batch) ==
    {At(width, batch[k][1], batch[k][2]) :
        k \in {j \in 1..Len(batch) : InRange(batch[j])}}

\* The grid after the call is the grid before it with the in-range pairs
\* of the batch Alive and nothing else changed.
SeededOnly ==
    /\ pc' = "returned"
    /\ Len(cells') = Len(cells)
    /\ \A i \in 1..Len(cells) :
          cells'[i] = "Alive" <=>
              (cells[i] = "Alive" \/ i \in Seeded(initial_cells))

\* init_cells ends in this step, by returning or by a panic.
InitCellsEnds == pc = "init_cells" /\ pc' # "init_cells"

\* C4: after init_cells with every pair in range, a cell is Alive exactly
\* if it was Alive before the call or the batch names it.
C4_SeedingAdditive ==
    [][(/\ InitCellsEnds
        /\ \A k \in 1..Len(initial_cells) : InRange(initial_cells[k]))
            => SeededOnly]_vars

\* C4 witness: init_cells has set two cells Alive on a grid that held
\* another live cell and still has a dead one.
C4_Witness ==
    /\ pc = "returned"
    /\ Len(initial_cells) = 2
    /\ \A k \in 1..Len(initial_cells) : InRange(initial_cells[k])
    /\ Cardinality(Seeded(initial_cells)) = 2
    /\ \A i \in Seeded(initial_cells) : cells[i] = "Alive"
    /\ \E i \in 1..Len(cells) :
          cells[i] = "Alive" /\ i \notin Seeded(initial_cells)
    /\ \E i \in 1..Len(cells) : cells[i] = "Dead"

\* C5 (as claimed): init_cells with any batch returns, the out-of-range
\* pairs skipped and wrapped onto no cell, the in-range pairs set Alive.
C5_OutOfRangeSkipped ==
    [][InitCellsEnds => SeededOnly]_vars

\* What render is to return: height lines of width glyphs, row-major, one
\* newline between consecutive rows and none after the last.
Lines(cs, w, h) ==
    [p \in 1..(h * (w + 1) - 1) |->
        IF p % (w + 1) = 0 THEN Newline
        ELSE IF cs[At(w, (p - 1) \div (w + 1), (p - 1) % (w + 1))] = "Alive"
             THEN GlyphAlive
             ELSE GlyphDead]

\* C6 (as claimed): render returns height lines of width glyphs with a
\* newline between consecutive rows only, on every grid, square or not.
C6_RenderLines ==
    ret.kind = "render" => ret.val = Lines(cells, width, height)

\* C7: the cell sequence has width x height cells in every state.
C7_LengthIsArea ==
    Len(cells) = width * height

\* C7 witness: a grid that is not square, with a live cell, after a call
\* that replaced the cells.
C7_Witness ==
    /\ pc = "idle"
    /\ width # height
    /\ cells_ptr # Alloc({})
    /\ \E i \in 1..Len(cells) : cells[i] = "Alive"
    /\ \E i \in 1..Len(cells) : cells[i] = "Dead"

\* C8: cells_to_arr returns width x height bytes, the one at
\* row * width + col being 1 for an Alive cell and 0 for a Dead one; while
\* the caller holds it, no step changes both: a seed or an advance leaves
\* the returned bytes as they were, a write to them leaves the grid.
C8_ExportSnapshot ==
    [][/\ (ret.kind = "none" /\ ret'.kind = "cells_to_arr")
            => /\ Len(ret'.val) = width * height
               /\ \A row \in 0..(height - 1), col \in 0..(width - 1) :
                     ret'.val[row * width + col + 1] =
                        IF cells[At(width, row, col)] = "Alive" THEN 1 ELSE 0
       /\ (ret.kind = "cells_to_arr" /\ ret'.kind = "cells_to_arr")
            => /\ cells' # cells => ret'.val = ret.val
               /\ ret'.val # ret.val => cells' = cells]_vars

\* C8 witness: the caller holds a snapshot with a live cell in it and the
\* grid has moved on since.
C8_Witness ==
    /\ pc = "idle"
    /\ ret.kind = "cells_to_arr"
    /\ ret_age > 0
    /\ \E i \in 1..Len(ret.val) : ret.val[i] = 1
    /\ \E i \in 1..Len(cells) : ret.val[i] # CellAsU8(cells[i])

\* A seed or an advance completes in this step.
Replaces ==
    \/ pc = "init_cells" /\ pc' = "returned"
    \/ pc = "next_epoch" /\ pc' = "idle"

\* C9 (as claimed): a view obtained from cells() designates the live
\* storage after any sequence of seed and advance calls.
C9_ViewStaysLive ==
    ret.kind = "cells" => ret.val = cells_ptr

\* C9 (amended): cells() returns the address of the live storage, and the
\* storage moves to a buffer at another address exactly when a seed or an
\* advance completes.
C9_ViewUntilNextCall ==
    [][/\ (ret.kind = "none" /\ ret'.kind = "cells") => ret'.val = cells_ptr'
       /\ cells_ptr' # cells_ptr <=> Replaces]_vars

\* C9 witness: the caller holds a view and a seed or an advance has
\* completed since: the view no longer designates the live storage.
C9_Witness ==
    /\ pc = "idle"
    /\ ret.kind = "cells"
    /\ ret_age > 0
    /\ ret.val # cells_ptr

\* C10: during the loop of next_epoch the live cells stay the grid before
\* the call, and they become the next generation in the one step that ends
\* the call, after the loop has done every cell.
C10_NoPartialGrid ==
    [][pc = "next_epoch"
         => IF pc' = "next_epoch"
            THEN cells' = cells /\ cells' = cells_clone'
            ELSE /\ pc' = "idle"
                 /\ index = Len(cells)
                 /\ cells' = next_cells]_vars

\* C10 witness: the loop is part way through and has already computed a
\* state that differs from the live cell's.
C10_Witness ==
    /\ pc = "next_epoch"
    /\ index > 0
    /\ index < Len(cells)
    /\ \E i \in 1..index : next_cells[i] # cells[i]
    /\ cells = cells_clone

\* The permutations of 1..n.
Perms(n) == {p \in [1..n -> 1..n] : \A i, j \in 1..n : p[i] = p[j] => i = j}

\* The grid init_cells(batch) leaves of the grid cs.
SeedBatch(cs, batch) == InitCellsLoop(cs, batch, width).cells

\* The grid init_single_cell, called for each pair of the batch in turn,
\* leaves of the grid cs.
RECURSIVE SeedOneByOne(_, _)
SeedOneByOne(cs, batch) ==
    IF batch = <<>> THEN cs
    ELSE SeedOneByOne(SeedBatch(cs, <<batch[1]>>), Tail(batch))

\* C13: when init_cells returns from a batch of in-range pairs, the grid is
\* the one a second init_cells of the same batch leaves, and the one the
\* batch in any other order leaves of the grid before the call, given to
\* init_cells at once or pair by pair to init_single_cell.
C13_SeedIdempotentAnyOrder ==
    [][(/\ InitCellsEnds
        /\ \A k \in 1..Len(initial_cells) : InRange(initial_cells[k]))
            => /\ pc' = "returned"
               /\ SeedBatch(cells', initial_cells) = cells'
               /\ \A p \in Perms(Len(initial_cells)) :
                     LET b == [k \in 1..Len(initial_cells) |->
                                   initial_cells[p[k]]]
                     IN  /\ SeedBatch(cells, b) = cells'
                         /\ SeedOneByOne(cells, b) = cells']_vars

\* C13 witness: init_cells has returned from a batch of two different
\* in-range pairs, and the grid is the one the pairs in the other order
\* leave.
C13_Witness ==
    /\ pc = "returned"
    /\ Len(initial_cells) = 2
    /\ \A k \in 1..Len(initial_cells) : InRange(initial_cells[k])
    /\ initial_cells[1] # initial_cells[2]
    /\ \E i \in 1..Len(cells) : cells[i] = "Dead"
    /\ SeedOneByOne(cells, <<initial_cells[2], initial_cells[1]>>) = cells

\* C14: to_index and from_index are inverse to each other between the
\* in-range (row, col) and the indices below width x height, to_index being
\* row * width + col; the loop of next_epoch is at the cell from_index
\* names; on the 10 x 10 grid index 11 is (1, 1) and (0, 0) is index 0.
C14_IndexBijection ==
    /\ \A row \in 0..(height - 1), col \in 0..(width - 1) :
          /\ to_index(width, row, col) = row * width + col
          /\ to_index(width, row, col) \in 0..(width * height - 1)
          /\ from_index(width, to_index(width, row, col)) = <<row, col>>
    /\ \A i \in 0..(width * height - 1) :
          LET rc == from_index(width, i)
          IN  /\ rc[1] \in 0..(height - 1)
              /\ rc[2] \in 0..(width - 1)
              /\ to_index(width, rc[1], rc[2]) = i
    /\ (pc = "next_epoch" /\ index > 0)
          => LET rc == from_index(width, index - 1)
             IN  cell = cells_clone[At(width, rc[1], rc[2])]
    /\ from_index(GliderSide, 11) = <<1, 1>>
    /\ to_index(GliderSide, 1, 1) = 11
    /\ to_index(GliderSide, 0, 0) = 0

\* C14 witness: on a grid that is not square the loop of next_epoch has
\* done a live cell that lies in neither the first row nor the first
\* column.
C14_Witness ==
    /\ pc = "next_epoch"
    /\ width # height
    /\ index > 0
    /\ from_index(width, index - 1)[1] > 0
    /\ from_index(width, index - 1)[2] > 0
    /\ cell = "Alive"

\* The offsets [-1, 0, 1] of src/lib.rs lead from row 0 to row height - 1
\* and from column 0 to column width - 1.
LibWrapsToLast ==
    /\ LibWrapped(0, height, -1) = height - 1
    /\ LibWrapped(0, width, -1) = width - 1

\* C15 (as claimed): on every grid the living_neightbour_count of
\* src/lib.rs wraps row 0 to row height - 1 and column 0 to column
\* width - 1, and returns the number of offsets that lead to an Alive cell
\* other than (row, col) itself, no other cell skipped.
C15_LibCountToroidal ==
    ret.kind = "lib_living_neightbour_count"
        => /\ LibWrapsToLast
           /\ ret.val = CountOfOthers(cells, width, height,
                                      ret.arg[1], ret.arg[2])

\* The calls that return a value read off the Universe.
Reads == {"cells_to_arr", "render", "cells", "height", "width",
          "living_neightbour_count", "lib_living_neightbour_count"}

\* C16: no step changes width or height, and a step in which a read
\* returns changes nothing of the Universe, its cells and their buffer
\* included; width() and height() return the two fields.
C16_DimensionsFixedReadsPure ==
    [][/\ width' = width
       /\ height' = height
       /\ (ret.kind = "none" /\ ret'.kind \in Reads)
            => /\ cells' = cells
               /\ cells_ptr' = cells_ptr
               /\ pc' = pc
       /\ (ret.kind = "none" /\ ret'.kind = "width") => ret'.val = width
       /\ (ret.kind = "none" /\ ret'.kind = "height") => ret'.val = height]_vars

\* C16 witness: render has returned on a grid that is not square, holds
\* live cells and has been replaced by a seed or an advance before.
C16_Witness ==
    /\ pc = "idle"
    /\ ret.kind = "render"
    /\ width # height
    /\ cells_ptr # Alloc({})
    /\ \E i \in 1..Len(cells) : cells[i] = "Alive"

\* The grid cs of a w x h torus moved by a rows and b columns: its cell
\* (row, col) is the cell (row - a, col - b) of cs.
Translate(cs, w, h, a, b) ==
    [i \in 1..Len(cs) |->
        cs[At(w, (((i - 1) \div w) - a) % h, (((i - 1) % w) - b) % w)]]

\* What the loop of next_epoch computes for the grid cs.
NextEpochOf(cs, w, h) ==
    [i \in 1..Len(cs) |->
        LET rc == from_index(w, i - 1)
        IN  hades(cs[i], living_neightbour_count(cs, w, h, rc[1], rc[2]))]

\* C17: when next_epoch replaces the grid, the new grid moved by any shift
\* (a, b) on the torus is what next_epoch computes for the old grid moved
\* by (a, b).
C17_AdvanceCommutesWithShift ==
    [][(pc = "next_epoch" /\ pc' = "idle")
         => \A a \in 0..(height - 1), b \in 0..(width - 1) :
               NextEpochOf(Translate(cells, width, height, a, b),
                           width, height)
                 = Translate(cells', width, height, a, b)]_vars

\* C17 witness: next_epoch is about to replace a grid by a different one
\* that has live cells and that some shift moves onto another grid.
C17_Witness ==
    /\ pc = "next_epoch"
    /\ index = Len(cells_clone)
    /\ next_cells # cells_clone
    /\ \E a \in 0..(height - 1), b \in 0..(width - 1) :
          /\ Translate(next_cells, width, height, a, b) # next_cells
          /\ Translate(cells_clone, width, height, a, b) # cells_clone

\* C18: the step in which init_cells panics changes neither the cells nor
\* their buffer.
C18_FailedSeedLeavesGrid ==
    [][(pc = "init_cells" /\ pc' = "panicked")
         => /\ cells' = cells
            /\ cells_ptr' = cells_ptr
            /\ \E k \in 1..Len(initial_cells) :
                  to_index(width, initial_cells[k][1], initial_cells[k][2])
                      >= Len(cells)]_vars

\* C18 witness: init_cells has panicked after the loop had gone through a
\* pair that names a Dead cell, and the cell is Dead.
C18_Witness ==
    /\ pc = "panicked"
    /\ Len(initial_cells) > 0
    /\ InRange(initial_cells[1])
    /\ cells[At(width, initial_cells[1][1], initial_cells[1][2])] = "Dead"

\* C11 (as claimed): for every width and height of u32, the products that
\* overflow included, Universe::new either fails or makes exactly
\* width x height cells, never the cells of the product wrapped to the
\* word.
C11_NewRejectsOrExact ==
    pc # "panicked" => Len(cells) = width * height

\* The grid has no cells by its width or its height.
ZeroSized == width = 0 \/ height = 0

\* C12 (as claimed): on a Universe made with width 0 or height 0, no step
\* of cells_to_arr, render or next_epoch panics; the export and the
\* rendering are empty and the grid stays empty.
C12_ZeroSizedConsistent ==
    [][ZeroSized
         => /\ pc \in {"idle", "next_epoch"} => pc' # "panicked"
            /\ ret'.kind \in {"cells_to_arr", "render"} => ret'.val = <<>>
            /\ cells' = <<>>]_vars

\* C19 (as claimed): on a grid of at least one cell whose width x height
\* fits the word, living_neightbour_count(row, col) of an in-range
\* (row, col), called on its own or by next_epoch, overflows in none of its
\* sums and products, so it does not panic and counts the cells at
\* ((row + dr) mod height, (col + dc) mod width).
C19_NoOverflowInCount ==
    [][(width >= 1 /\ height >= 1 /\ width * height < Word)
         => /\ pc = "next_epoch" => pc' # "panicked"
            /\ (/\ pc = "idle"
                /\ \/ pc' = "panicked"
                   \/ /\ ret.kind = "none"
                      /\ ret'.kind = "living_neightbour_count")
                 => /\ pc' = "idle"
                    /\ ~CountOverflows(width, height,
                                       ret'.arg[1], ret'.arg[2])
                    /\ ret'.val = CountOfOthers(cells, width, height,
                                                ret'.arg[1], ret'.arg[2])]_vars

====
